---- MODULE Spec2Model ----
(***************************************************************************)
(* A model of top_restaurants_google_places.py: the pipeline of main()     *)
(* (credential check, city input, text search, scoring, selection of the   *)
(* top 10, per-candidate details fetch, projection, file write) and its    *)
(* pure helpers composite_score, text_search_restaurants,                  *)
(* fetch_place_details and build_output.                                   *)
(*                                                                         *)
(* Python values are tagged records, so that values of different Python    *)
(* types can sit in one list or dict: None, Num(n), Str(s), List(xs),      *)
(* Dict(d).  A str is a sequence of characters (a str the program only     *)
(* compares or passes on may be one token); a dict is a function whose     *)
(* domain is its set of keys.  Ratings are fixed point, in tenths of a     *)
(* star (45 is 4.5); scores are in units of 1/10000.                       *)
(***************************************************************************)
EXTENDS Integers, Sequences, FiniteSets, TLC

VARIABLES
    pc,              \* position of main(), or of a helper called on its own
    GOOGLE_API_KEY,  \* module-level credential (line 17)
    typed,           \* what the user typed at the prompt (line 85), raw
    asked,           \* whether input() was called
    city,            \* main's local `city`
    search_resp,     \* the provider's answer to the search request
    raw_results,     \* main's local `raw_results`
    top_candidates,  \* main's local `top_candidates`
    enriched,        \* main's local `enriched`
    returned,        \* the value fetch_place_details returned, per candidate
    requests,        \* log of the HTTP requests issued, in order
    files,           \* log of the files opened for writing, in order
    halt,            \* which halting message main printed, "" if none
    raised,          \* the function an uncaught exception escaped from, "" if none
    arg,             \* argument of a helper called on its own
    ret              \* its result

vars == <<pc, GOOGLE_API_KEY, typed, asked, city, search_resp, raw_results,
          top_candidates, enriched, returned, requests, files, halt, raised,
          arg, ret>>

mainVars == <<GOOGLE_API_KEY, typed, asked, city, search_resp, raw_results,
              top_candidates, enriched, returned, requests, files, halt, raised>>

-----------------------------------------------------------------------------
(* Python values *)

None == [none |-> TRUE]
Num(n) == [num |-> n]
Str(s) == [str |-> s]
List(xs) == [list |-> xs]
Dict(d) == [dict |-> d]

IsNone(v) == DOMAIN v = {"none"}
IsNum(v) == DOMAIN v = {"num"}
IsStr(v) == DOMAIN v = {"str"}
IsList(v) == DOMAIN v = {"list"}
IsDict(v) == DOMAIN v = {"dict"}

\* bool(v): None, 0, "", [] and {} are falsy.
Truthy(v) ==
    CASE IsNone(v) -> FALSE
      [] IsNum(v) -> v.num # 0
      [] IsStr(v) -> v.str # <<>>
      [] IsList(v) -> v.list # <<>>
      [] IsDict(v) -> DOMAIN v.dict # {}

\* `a or b`
Or(a, b) == IF Truthy(a) THEN a ELSE b

EmptyDict == <<>>

\* d.get(k, default) and d.get(k) on a dict d (a function on its keys).
GetD(d, k, default) == IF k \in DOMAIN d THEN d[k] ELSE default
Get(d, k) == GetD(d, k, None)

\* {**p, **details}: the keys of both, details winning on a collision.
Merge(p, details) ==
    [k \in DOMAIN p \cup DOMAIN details |->
        IF k \in DOMAIN details THEN details[k] ELSE p[k]]

Min(a, b) == IF a <= b THEN a ELSE b

-----------------------------------------------------------------------------
(* composite_score, lines 23-26 *)

\* math.log10 in thousandths, on the arguments 1 + review_count the model
\* uses (log10 of 6 is 0.778 to three places; the others are exact).
Log10Milli(n) ==
    CASE n = 1 -> 0
      [] n = 6 -> 778
      [] n = 10 -> 1000
      [] n = 100 -> 2000
      [] n = 1000 -> 3000

\* A slip that drops the "1.0 +" in front of the logarithm.
composite_score_nolead(rating, review_count) ==
    LET r == Or(rating, Num(0)).num
        v == Or(review_count, Num(0)).num
    IN  r * Log10Milli(1 + v)

\* r = rating or 0.0; v = float(review_count or 0);
\* r * (1.0 + math.log10(1.0 + v)), in units of 1/10000.
composite_score(rating, review_count) ==
    LET r == Or(rating, Num(0)).num
        v == Or(review_count, Num(0)).num
    IN  r * (1000 + Log10Milli(1 + v))

-----------------------------------------------------------------------------
(* str methods *)

Whitespace == {" ", "\t", "\n"}

RECURSIVE LStrip(_)
LStrip(s) ==
    IF s # <<>> /\ Head(s) \in Whitespace THEN LStrip(Tail(s)) ELSE s

RECURSIVE RStrip(_)
RStrip(s) ==
    IF s # <<>> /\ s[Len(s)] \in Whitespace
    THEN RStrip(SubSeq(s, 1, Len(s) - 1)) ELSE s

\* s.strip()
Strip(s) == RStrip(LStrip(s))

\* s.replace(' ', '_')
ReplaceSpaces(s) == [i \in 1..Len(s) |-> IF s[i] = " " THEN "_" ELSE s[i]]

\* s.lower(), on the letters the model types
Lower(s) == [i \in 1..Len(s) |-> IF s[i] = "N" THEN "n" ELSE s[i]]

\* f"top-10-restaurants-{city.replace(' ', '_').lower()}.json", line 115
Filename(c) == <<"top-10-restaurants-">> \o Lower(ReplaceSpaces(c)) \o <<".json">>

-----------------------------------------------------------------------------
(* HTTP: what requests.get can do with a request *)

\* The body of a response: not JSON at all, or a JSON value.
NotJson == [notjson |-> TRUE]
Json(v) == [json |-> v]

Timeout == [kind |-> "timeout"]
ConnectionError == [kind |-> "connection_error"]
Http(status, body) == [kind |-> "http", status |-> status, body |-> body]

\* requests.get raises a RequestException (Timeout, ConnectionError).
GetRaises(resp) == resp.kind # "http"

\* resp.raise_for_status() raises HTTPError on a 4xx or 5xx status.
StatusRaises(resp) == resp.status >= 400 /\ resp.status < 600

\* The outcome of a call: a returned value, or an exception that escaped.
Return(v) == [raised |-> FALSE, value |-> v]
Raise(e) == [raised |-> TRUE, value |-> Str(<<e>>)]

-----------------------------------------------------------------------------
(* text_search_restaurants, lines 28-38 *)

\* resp is the provider's answer.  On a body that is not JSON resp.json()
\* raises requests.exceptions.JSONDecodeError, a RequestException (requests
\* 2.27 and later), which line 36 catches; data.get on a JSON value that is
\* not an object raises AttributeError, which it does not.
text_search_restaurants(resp) ==
    IF GetRaises(resp) THEN Return(List(<<>>))                  \* line 32 -> 36
    ELSE IF StatusRaises(resp) THEN Return(List(<<>>))          \* line 33 -> 36
    ELSE IF "notjson" \in DOMAIN resp.body                      \* line 34 -> 36
         THEN Return(List(<<>>))
    ELSE LET data == resp.body.json
         IN  IF ~IsDict(data) THEN Raise("AttributeError")      \* data.get, line 35
             ELSE Return(GetD(data.dict, "results", List(<<>>)))

-----------------------------------------------------------------------------
(* fetch_place_details, lines 40-52 *)

fetch_place_details(resp) ==
    IF GetRaises(resp) THEN Return(Dict(EmptyDict))             \* line 47 -> 51
    ELSE IF StatusRaises(resp) THEN Return(Dict(EmptyDict))     \* line 48 -> 51
    ELSE IF "notjson" \in DOMAIN resp.body                      \* line 49 -> 51
         THEN Return(Dict(EmptyDict))
    ELSE LET data == resp.body.json
         IN  IF ~IsDict(data) THEN Raise("AttributeError")      \* data.get, line 50
             ELSE IF Get(data.dict, "status") = Str(<<"O", "K">>)
                  THEN Return(GetD(data.dict, "result", Dict(EmptyDict)))
                  ELSE Return(Dict(EmptyDict))

-----------------------------------------------------------------------------
(* Ranking and selection, main lines 97-101 *)

TopK == 10

\* p["_score"] = composite_score(p.get("rating"), p.get("user_ratings_total"))
Scored(p) ==
    LET sc == composite_score(Get(p, "rating"), Get(p, "user_ratings_total"))
    IN  [k \in DOMAIN p \cup {"_score"} |-> IF k = "_score" THEN Num(sc) ELSE p[k]]

\* key=lambda d: d.get("_score", 0.0)
SortKey(d) == GetD(d, "_score", Num(0)).num

\* x put after every entry of the descending sequence s whose key is greater
\* than or equal to its own: among equal keys the later stays later.
RECURSIVE InsertDesc(_, _)
InsertDesc(x, s) ==
    IF s = <<>> THEN <<x>>
    ELSE IF SortKey(Head(s)) >= SortKey(x)
         THEN <<Head(s)>> \o InsertDesc(x, Tail(s))
         ELSE <<x>> \o s

RECURSIVE SortFrom(_, _)
SortFrom(done, rest) ==
    IF rest = <<>> THEN done
    ELSE SortFrom(InsertDesc(Head(rest), done), Tail(rest))

\* A sort that puts an entry before the entries of equal key (not stable).
RECURSIVE InsertDescUnstable(_, _)
InsertDescUnstable(x, s) ==
    IF s = <<>> THEN <<x>>
    ELSE IF SortKey(Head(s)) > SortKey(x)
         THEN <<Head(s)>> \o InsertDescUnstable(x, Tail(s))
         ELSE <<x>> \o s

RECURSIVE SortFromUnstable(_, _)
SortFromUnstable(done, rest) ==
    IF rest = <<>> THEN done
    ELSE SortFromUnstable(InsertDescUnstable(Head(rest), done), Tail(rest))

SortedUnstable(s) == SortFromUnstable(<<>>, s)

\* sorted(s, key=..., reverse=True): descending by key, and stable (Python's
\* sort keeps the original order of equal keys, with reverse=True as well).
Sorted(s) == SortFrom(<<>>, s)

\* s[:n]
Prefix(s, n) == SubSeq(s, 1, Min(n, Len(s)))

\* Lines 97-101: score every result, sort, keep the first ten.
Select(results) ==
    Prefix(Sorted([i \in 1..Len(results) |-> Scored(results[i])]), TopK)

-----------------------------------------------------------------------------
(* build_output, lines 54-70 *)

Unknown == <<"U", "n", "k", "n", "o", "w", "n">>

\* The comprehension of lines 64-68 over the sliced list: an entry that is
\* not a dict is filtered out; (rev.get("text") or "").strip() raises
\* AttributeError when the text is truthy and not a str.
RECURSIVE Snippets(_)
Snippets(revs) ==
    IF revs = <<>> THEN Return(<<>>)
    ELSE LET rev == Head(revs)
             rest == Snippets(Tail(revs))
         IN  IF ~IsDict(rev) THEN rest
             ELSE LET t == Or(Get(rev.dict, "text"), Str(<<>>))
                  IN  IF ~IsStr(t) THEN Raise("AttributeError")
                      ELSE IF rest.raised THEN rest
                      ELSE Return(<<Str(Strip(t.str))>> \o rest.value)

\* (p.get("reviews") or [])[:3]: a list is sliced; a str is sliced too, into
\* characters; any other truthy value cannot be sliced.
ReviewSlice(p) ==
    LET reviews == Or(Get(p, "reviews"), List(<<>>))
    IN  IF IsList(reviews) THEN Return(Prefix(reviews.list, 3))
        ELSE IF IsStr(reviews)
             THEN Return([i \in 1..Min(3, Len(reviews.str)) |-> Str(<<reviews.str[i]>>)])
        ELSE Raise("TypeError")

\* The value of lines 57-69 for one place.
OutputEntry(p) ==
    LET slice == ReviewSlice(p)
        snips == IF slice.raised THEN slice ELSE Snippets(slice.value)
    IN  IF snips.raised THEN snips
        ELSE Return([rating |-> Get(p, "rating"),
                     user_ratings_total |-> Get(p, "user_ratings_total"),
                     address |-> Get(p, "formatted_address"),
                     price_level |-> Get(p, "price_level"),
                     google_maps_url |-> Get(p, "url"),
                     website |-> Get(p, "website"),
                     review_snippets |-> List(snips.value)])

\* A dict as Python keeps it: the items in insertion order.
HasKey(out, k) == \E i \in 1..Len(out) : out[i].key = k

\* An assignment that keeps the first value of a key already present.
DictSetKeepFirst(out, k, v) ==
    IF HasKey(out, k) THEN out ELSE Append(out, [key |-> k, val |-> v])

\* out[k] = v: a key already present keeps its place and takes the new value.
DictSet(out, k, v) ==
    IF HasKey(out, k)
    THEN [i \in 1..Len(out) |-> IF out[i].key = k THEN [key |-> k, val |-> v] ELSE out[i]]
    ELSE Append(out, [key |-> k, val |-> v])

\* The loop of lines 56-69 from the dict `out` over the places left.
RECURSIVE BuildFrom(_, _)
BuildFrom(out, places) ==
    IF places = <<>> THEN Return(out)
    ELSE LET p == Head(places)
             e == OutputEntry(p)
         IN  IF e.raised THEN e
             ELSE BuildFrom(DictSet(out, GetD(p, "name", Str(Unknown)), e.value),
                            Tail(places))

build_output(top_places) == BuildFrom(<<>>, top_places)

-----------------------------------------------------------------------------
(* What the environment can supply *)

MaxCity == 2       \* longest line typed at the prompt
MaxRaw == 3        \* longest list of search results enumerated in full

\* All sequences over S of length at most n.
SeqsUpTo(S, n) == UNION {[1..m -> S] : m \in 0..n}

\* os.getenv("GOOGLE_API_KEY"): unset, set to the empty string, or set.
KeyValues == {None, Str(<<>>), Str(<<"k">>)}

CityInputs == SeqsUpTo({" ", "N"}, MaxCity)

\* Search results as the provider describes them, before the place id.
KA == [name |-> Str(<<"A">>), rating |-> Num(45), user_ratings_total |-> Num(999)]
KB == [name |-> Str(<<"B">>), rating |-> Num(40), user_ratings_total |-> Num(9)]
KC == [name |-> Str(<<"C">>), rating |-> Num(20), user_ratings_total |-> Num(999)]
KD == [name |-> Str(<<"D">>), rating |-> Num(50), user_ratings_total |-> Num(0)]
KE == [name |-> Str(<<"E">>), rating |-> None]

\* The i-th result of a response: place ids are opaque, here the position.
Place(i, kind) == Merge(kind, [place_id |-> Num(i)])

Places(kinds) == [i \in 1..Len(kinds) |-> Place(i, kinds[i])]

\* One list longer than the selection, so that main truncates.
LongKinds == [i \in 1..(TopK + 1) |-> IF i % 2 = 1 THEN KD ELSE KB]

MainResultLists ==
    {Places(ks) : ks \in SeqsUpTo({KB, KD}, MaxRaw) \cup {LongKinds}}

\* Answers to the search request (lines 32-35).
SearchResponses ==
    {Timeout, ConnectionError, Http(404, NotJson), Http(200, NotJson),
     Http(200, Json(None)), Http(200, Json(List(<<>>))),
     Http(200, Json(Dict(EmptyDict))),
     Http(200, Json(Dict([status |-> Str(<<"ZERO_RESULTS">>), results |-> List(<<>>)]))),
     Http(200, Json(Dict([status |-> Str(<<"INVALID_REQUEST">>), results |-> None])))}
    \cup {Http(200, Json(Dict([status |-> Str(<<"O", "K">>), results |-> List(l)]))) :
            l \in MainResultLists}
    \cup {Http(500, Json(Dict([status |-> Str(<<"O", "K">>), results |-> List(Places(<<KB>>))])))}

\* Detail records (line 50's data["result"]).
DetailGood ==
    [name |-> Str(<<"A">>), rating |-> Num(46), user_ratings_total |-> Num(1000),
     formatted_address |-> Str(<<"1", " ", "S", "t">>),
     reviews |-> List(<<Dict([text |-> Str(<<" ", "o", "k", "\n">>)])>>)]
DetailBadText ==
    [name |-> Str(<<"B">>), rating |-> Num(41),
     reviews |-> List(<<Dict([text |-> Num(5)])>>)]

\* JSON objects a details response can carry.
DetailBodies(records) ==
    {EmptyDict, [status |-> Str(<<"O", "K">>)],
     [status |-> Str(<<"O", "K">>), result |-> None],
     [status |-> Str(<<"O", "K">>), result |-> Dict(EmptyDict)]}
    \cup {[status |-> Str(<<"O", "K">>), result |-> Dict(r)] : r \in records}
    \cup {[status |-> Str(<<"NOT_FOUND">>), result |-> Dict(r)] : r \in records}
    \cup {[status |-> Str(<<"OVER_QUERY_LIMIT">>)]}
    \cup {[result |-> Dict(r)] : r \in records}

\* Answers to a details request (lines 47-50).
DetailsResponsesOver(records) ==
    {Timeout, ConnectionError}
    \cup {Http(st, b) : st \in {200, 403, 404, 500},
                        b \in {NotJson, Json(None), Json(List(<<>>)), Json(Str(<<"x">>))}
                              \cup {Json(Dict(d)) : d \in DetailBodies(records)}}

DetailsResponses == DetailsResponsesOver({DetailGood, DetailBadText})

OkWith(result) == Http(200, Json(Dict([status |-> Str(<<"O", "K">>), result |-> result])))

\* The answers main's loop is run against: every outcome of a fetch for the
\* lists enumerated in full, a success and a failure for the long list.
MainDetailsResponses(n) ==
    IF n > MaxRaw THEN {Timeout, OkWith(Dict(DetailGood))}
    ELSE {Timeout, Http(404, NotJson), Http(200, NotJson),
          Http(200, Json(List(<<>>))), Http(200, Json(Dict(EmptyDict))),
          OkWith(None), OkWith(Dict(EmptyDict)), OkWith(Dict(DetailGood)),
          OkWith(Dict(DetailBadText)),
          Http(200, Json(Dict([status |-> Str(<<"NOT_FOUND">>),
                               result |-> Dict(DetailGood)])))}

NoResp == [kind |-> "none"]

-----------------------------------------------------------------------------
(* main, lines 72-123 *)

Init ==
    /\ pc = "check_key"
    /\ GOOGLE_API_KEY \in KeyValues
    /\ typed = <<>>
    /\ asked = FALSE
    /\ city = <<>>
    /\ search_resp = NoResp
    /\ raw_results = List(<<>>)
    /\ top_candidates = <<>>
    /\ enriched = <<>>
    /\ returned = <<>>
    /\ requests = <<>>
    /\ files = <<>>
    /\ halt = ""
    /\ raised = ""
    /\ arg = None
    /\ ret = None

\* Lines 73-83: `if not GOOGLE_API_KEY: ... return`.
CheckKey ==
    /\ pc = "check_key"
    /\ IF ~Truthy(GOOGLE_API_KEY)
       THEN halt' = "no_api_key" /\ pc' = "done"
       ELSE halt' = halt /\ pc' = "input"
    /\ UNCHANGED <<GOOGLE_API_KEY, typed, asked, city, search_resp, raw_results,
                   top_candidates, enriched, returned, requests, files, raised,
                   arg, ret>>

\* A read of the city that forgets .strip().
CityOfRaw(line) == line

\* input("Enter a city name: ").strip(), line 85
CityOf(line) == Strip(line)

\* Lines 85-88.
ReadCity ==
    /\ pc = "input"
    /\ \E line \in CityInputs :
         /\ typed' = line
         /\ asked' = TRUE
         /\ city' = CityOf(line)
         /\ IF city' = <<>>
            THEN halt' = "no_city" /\ pc' = "done"
            ELSE halt' = halt /\ pc' = "search"
    /\ UNCHANGED <<GOOGLE_API_KEY, search_resp, raw_results, top_candidates,
                   enriched, returned, requests, files, raised, arg, ret>>

SearchRequest(c) == [endpoint |-> "textsearch", query |-> c, place_id |-> None]
DetailsRequest(id) == [endpoint |-> "details", query |-> <<>>, place_id |-> id]

\* Lines 90-95: the search call and the test of its result.
Search ==
    /\ pc = "search"
    /\ \E resp \in SearchResponses :
         LET r == text_search_restaurants(resp)
         IN  /\ requests' = Append(requests, SearchRequest(city))
             /\ search_resp' = resp
             /\ IF r.raised
                THEN /\ raised' = "text_search_restaurants"
                     /\ pc' = "done"
                     /\ UNCHANGED <<raw_results, halt>>
                ELSE /\ raw_results' = r.value
                     /\ raised' = raised
                     /\ IF ~Truthy(r.value)
                        THEN halt' = "no_results" /\ pc' = "done"
                        ELSE halt' = halt /\ pc' = "rank"
    /\ UNCHANGED <<GOOGLE_API_KEY, typed, asked, city, top_candidates, enriched,
                   returned, files, arg, ret>>

\* Lines 97-101: the scores are written into the results themselves.
Rank ==
    /\ pc = "rank"
    /\ raw_results' =
         List([i \in 1..Len(raw_results.list) |-> Scored(raw_results.list[i])])
    /\ top_candidates' = Select(raw_results.list)
    /\ pc' = "enrich"
    /\ UNCHANGED <<GOOGLE_API_KEY, typed, asked, city, search_resp, enriched,
                   returned, requests, files, halt, raised, arg, ret>>

\* A loop body that forgets the test `if details:` for a record.
EnrichNoTest(list, p, details) ==
    IF IsDict(details) THEN Append(list, Merge(p, details.dict)) ELSE list

\* Lines 106-107: if details: enriched.append({**p, **details})
Enrich(list, p, details) ==
    IF Truthy(details) THEN Append(list, Merge(p, details.dict)) ELSE list

\* One iteration of the loop of lines 104-108, for the next candidate.
Fetch ==
    /\ pc = "enrich"
    /\ Len(returned) < Len(top_candidates)
    /\ LET p == top_candidates[Len(returned) + 1]
       IN  \E resp \in MainDetailsResponses(Len(top_candidates)) :
             LET r == fetch_place_details(resp)
             IN  /\ requests' = Append(requests, DetailsRequest(Get(p, "place_id")))
                 /\ IF r.raised
                    THEN /\ raised' = "fetch_place_details"
                         /\ pc' = "done"
                         /\ UNCHANGED <<enriched, returned>>
                    ELSE /\ returned' = Append(returned, r.value)
                         /\ enriched' = Enrich(enriched, p, r.value)
                         /\ UNCHANGED <<raised, pc>>
    /\ UNCHANGED <<GOOGLE_API_KEY, typed, asked, city, search_resp, raw_results,
                   top_candidates, files, halt, arg, ret>>

\* Lines 110-117, after the loop: halt on an empty list, else project and write.
Finish ==
    /\ pc = "enrich"
    /\ Len(returned) = Len(top_candidates)
    /\ pc' = "done"
    /\ IF ~(enriched # <<>>)
       THEN halt' = "no_details" /\ UNCHANGED <<files, raised>>
       ELSE LET output_mapping == build_output(enriched)
            IN  /\ halt' = halt
                /\ IF output_mapping.raised
                   THEN raised' = "build_output" /\ files' = files
                   ELSE /\ raised' = raised
                        /\ files' = Append(files, [name |-> Filename(city),
                                                   content |-> output_mapping.value])
    /\ UNCHANGED <<GOOGLE_API_KEY, typed, asked, city, search_resp, raw_results,
                   top_candidates, enriched, returned, requests, arg, ret>>

Next == CheckKey \/ ReadCity \/ Search \/ Rank \/ Fetch \/ Finish

Spec == Init /\ [][Next]_vars

-----------------------------------------------------------------------------
(* Properties of main *)

\* A line of nothing but whitespace (the empty line included).
Blank(line) == \A i \in 1..Len(line) : line[i] \in {" ", "\t", "\n"}

\* The run went past the credential and city checks.
PastChecks == pc \notin {"check_key", "input"} /\ halt \notin {"no_api_key", "no_city"}

\* The loop of lines 104-108 has run to its end.
LoopDone == pc = "done" /\ halt \notin {"no_api_key", "no_city", "no_results"}
            /\ raised \notin {"text_search_restaurants", "fetch_place_details"}

\* C1: the output file is written only when a selected candidate was
\* enriched: no halting path opens it, at most one file is ever written, and
\* a run whose enriched list is not empty after the loop writes exactly one.
C1_FileWrittenIffEnriched ==
    /\ Len(files) <= 1
    /\ files # <<>> => enriched # <<>>
    /\ halt # "" => files = <<>>
    /\ (LoopDone /\ enriched # <<>>) => Len(files) = 1

\* C2: without a credential no request is issued and the city is not asked
\* for; with a blank or whitespace-only city no request is issued.
C2_NoRequestWithoutKeyOrCity ==
    /\ GOOGLE_API_KEY \in {None, Str(<<>>)} => requests = <<>> /\ ~asked
    /\ (asked /\ Blank(typed)) => requests = <<>>

\* A run that halted on a whitespace-only city, having issued nothing.
C2_Witness ==
    pc = "done" /\ asked /\ typed = <<" ", " ">> /\ halt = "no_city" /\ requests = <<>>

\* The search request failed: in transport, by status, or by a body that is
\* not JSON or not a JSON object.
SearchFailed(resp) ==
    \/ resp.kind \in {"timeout", "connection_error"}
    \/ /\ resp.kind = "http"
       /\ \/ resp.status < 200 \/ resp.status > 299
          \/ "notjson" \in DOMAIN resp.body
          \/ DOMAIN resp.body.json # {"dict"}

\* C4: whatever way the search request fails, nothing is raised out of
\* text_search_restaurants and main halts with "No results found.".
C4_SearchFailureIsNoResults ==
    (search_resp # NoResp /\ SearchFailed(search_resp))
        => (raised = "" /\ halt = "no_results" /\ pc = "done")

\* The candidates, by position, whose fetch returned a non-empty record.
Kept == {i \in 1..Len(returned) :
            DOMAIN returned[i] = {"dict"} /\ DOMAIN returned[i].dict # {}}

\* The j-th smallest member of Kept.
KeptAt(j) == CHOOSE i \in Kept : Cardinality({m \in Kept : m < i}) = j - 1

\* C7: the enriched list holds exactly the selected candidates whose fetch
\* returned a non-empty record, in the order of the selection, each with the
\* candidate's own fields under the fields of its details.
C7_EnrichedIsKeptSubsequence ==
    /\ Len(enriched) = Cardinality(Kept)
    /\ \A j \in 1..Len(enriched) :
         LET p == top_candidates[KeptAt(j)]
             d == returned[KeptAt(j)].dict
         IN  /\ DOMAIN enriched[j] = DOMAIN p \cup DOMAIN d
             /\ \A k \in DOMAIN d : enriched[j][k] = d[k]
             /\ \A k \in DOMAIN p \ DOMAIN d : enriched[j][k] = p[k]

\* A finished run whose top candidate was dropped, whose second was kept,
\* and whose selection is not in search order.
C7_Witness ==
    /\ pc = "done" /\ files # <<>>
    /\ Len(top_candidates) = 3 /\ Len(enriched) = 2
    /\ 1 \notin Kept
    /\ top_candidates[1].place_id # Num(1)
    /\ enriched[1].place_id = top_candidates[2].place_id

\* C10: a run past the checks issues the search request first and once, then
\* one details request per selected candidate in selection order whatever the
\* earlier fetches did, at most 11 requests in all, and writes the file only
\* after the last of them.
C10_OneRequestPerCandidate ==
    /\ (PastChecks /\ pc # "search") =>
          /\ Len(requests) >= 1 /\ requests[1] = SearchRequest(city)
          /\ \A i \in 2..Len(requests) : requests[i].endpoint = "details"
          /\ Len(requests) <= 11
    /\ (PastChecks /\ pc = "done") =>
          /\ Len(requests) = 1 + Len(top_candidates)
          /\ \A i \in 1..Len(top_candidates) :
                requests[i + 1] = DetailsRequest(top_candidates[i].place_id)
    /\ files # <<>> => Len(requests) = 1 + Len(top_candidates)

-----------------------------------------------------------------------------
(* The helpers on their own: one call, on an argument drawn at the start *)

\* main is not running.
MainIdle ==
    /\ GOOGLE_API_KEY = None
    /\ typed = <<>>
    /\ asked = FALSE
    /\ city = <<>>
    /\ search_resp = NoResp
    /\ raw_results = List(<<>>)
    /\ top_candidates = <<>>
    /\ enriched = <<>>
    /\ returned = <<>>
    /\ requests = <<>>
    /\ files = <<>>
    /\ halt = ""
    /\ raised = ""

Called(result) ==
    /\ pc = "call"
    /\ pc' = "returned"
    /\ ret' = result
    /\ UNCHANGED <<arg, mainVars>>

(* composite_score *)

MaxRating == 50    \* ratings run from 0.0 to 5.0, in tenths

RatingValues == {None} \cup {Num(r) : r \in 0..MaxRating}
CountValues == {None} \cup {Num(v) : v \in {0, 5, 9, 99, 999}}

InitScore ==
    /\ pc = "call"
    /\ arg \in [rating : RatingValues, review_count : CountValues]
    /\ ret = None
    /\ MainIdle

CallScore == Called(Num(composite_score(arg.rating, arg.review_count)))

SpecScore == InitScore /\ [][CallScore]_vars

\* The rating as a number of tenths, None counting as 0.
RatingOrZero(r) == IF DOMAIN r = {"num"} THEN r.num ELSE 0

\* C3 as stated: the score is 0 when the review count is 0 or absent, and 0
\* when the rating is 0 or absent.
C3_ZeroReviewsScoreZero ==
    pc = "returned" =>
        /\ arg.review_count \in {None, Num(0)} => ret = Num(0)
        /\ arg.rating \in {None, Num(0)} => ret = Num(0)

\* C3 amended: with a review count of 0 or absent the score is the rating
\* itself (1000 units of 1/10000 per tenth of a star), and with a rating of 0
\* or absent the score is 0.
C3_ZeroReviewsScoreRating ==
    pc = "returned" =>
        /\ arg.review_count \in {None, Num(0)}
              => ret = Num(1000 * RatingOrZero(arg.rating))
        /\ arg.rating \in {None, Num(0)} => ret = Num(0)

\* A place rated 4.5 with no reviews scores 4.5.
C3_Witness ==
    pc = "returned" /\ arg.rating = Num(45) /\ arg.review_count = Num(0)
    /\ ret = Num(45000)

(* fetch_place_details *)

InitFetch ==
    /\ pc = "call"
    /\ arg \in DetailsResponses
    /\ ret = None
    /\ MainIdle

CallFetch == Called(fetch_place_details(arg))

SpecFetch == InitFetch /\ [][CallFetch]_vars

\* The response is a 2xx JSON object whose status is OK and which has a result.
IsOkDetails(resp) ==
    /\ resp.kind = "http"
    /\ resp.status >= 200 /\ resp.status <= 299
    /\ "json" \in DOMAIN resp.body
    /\ DOMAIN resp.body.json = {"dict"}
    /\ "status" \in DOMAIN resp.body.json.dict
    /\ resp.body.json.dict.status = Str(<<"O", "K">>)
    /\ "result" \in DOMAIN resp.body.json.dict

\* C5: fetch_place_details raises nothing; it returns the result record of
\* a response whose status is OK and the empty record for every other
\* response, transport and parse failures included.
C5_FetchReturnsRecordOrEmpty ==
    pc = "returned" =>
        /\ ~ret.raised
        /\ ret.value = IF IsOkDetails(arg) THEN arg.body.json.dict.result
                       ELSE Dict(EmptyDict)

(* Ranking and selection *)

MaxShort == 3      \* longest result list enumerated over every kind of place
MaxLong == 11      \* longest result list, over two kinds of place

SelectLists ==
    {Places(ks) : ks \in SeqsUpTo({KA, KB, KC, KD, KE}, MaxShort)
                         \cup SeqsUpTo({KB, KD}, MaxLong)}

InitSelect ==
    /\ pc = "call"
    /\ arg \in SelectLists
    /\ ret = None
    /\ MainIdle

CallSelect == Called(Select(arg))

SpecSelect == InitSelect /\ [][CallSelect]_vars

\* The composite score of the i-th search result.
ScoreAt(i) == composite_score(Get(arg[i], "rating"), Get(arg[i], "user_ratings_total"))

\* The scores of the search results, by position.
Scores == [i \in 1..Len(arg) |-> ScoreAt(i)]

\* Where the i-th search result stands when the results are put in descending
\* order of the scores sc, equal scores in search order: one past the number
\* of results that score higher or that score the same and come earlier.
RankIn(sc, i) ==
    1 + Cardinality({k \in DOMAIN sc : sc[k] > sc[i] \/ (sc[k] = sc[i] /\ k < i)})

\* C6: the selection is the first min(10, len) results in descending score
\* order with ties in search order: the result of rank r <= 10 stands at
\* place r, with its own fields, and no result left out scores higher than
\* one selected.
C6_SelectionIsStableTopTen ==
    pc = "returned" =>
        LET sc == Scores
            rank == [i \in 1..Len(arg) |-> RankIn(sc, i)]
        IN  /\ Len(ret) = (IF Len(arg) < 10 THEN Len(arg) ELSE 10)
            /\ \A i \in 1..Len(arg) :
                  IF rank[i] <= 10
                  THEN /\ ret[rank[i]]._score = Num(sc[i])
                       /\ \A k \in DOMAIN arg[i] : ret[rank[i]][k] = arg[i][k]
                  ELSE \A j \in 1..Len(ret) : ret[j]._score.num >= sc[i]

\* Eleven results, the lower-scoring first: the selection is reordered, cut
\* to ten, and holds two results of equal score in search order.
C6_Witness ==
    /\ pc = "returned" /\ Len(arg) = 11 /\ Len(ret) = 10
    /\ ScoreAt(1) < ScoreAt(2) /\ ScoreAt(2) = ScoreAt(3)
    /\ ret[1].place_id = Num(2) /\ ret[2].place_id = Num(3)

(* build_output *)

MaxReviews == 4    \* longest reviews list
MaxPlaces == 2     \* longest enriched list

InitBuildWith(lists) ==
    /\ pc = "call"
    /\ arg \in lists
    /\ ret = None
    /\ MainIdle

CallBuild == Called(build_output(arg))

\* Review entries: a text with whitespace around it, no text field, a null
\* text, a text that is a number, and an entry that is not a record.
ReviewEntries ==
    {Dict([text |-> Str(<<" ", "o", "k", "\n">>)]),
     Dict([author_name |-> Str(<<"a">>)]),
     Dict([text |-> None]),
     Dict([text |-> Num(5)]),
     Str(<<"x">>)}

ReviewShapes ==
    {EmptyDict, [reviews |-> None]}
    \cup {[reviews |-> List(rs)] : rs \in SeqsUpTo(ReviewEntries, MaxReviews)}

\* One enriched place per shape of its reviews.
InitSnippets == InitBuildWith({<<Merge(Place(1, KA), sh)>> : sh \in ReviewShapes})

SpecSnippets == InitSnippets /\ [][CallBuild]_vars

\* C8: for every shape of the reviews list build_output raises nothing and
\* review_snippets holds at most 3 entries, each a string with no whitespace
\* at either end, and no more entries than the place has reviews.
C8_SnippetsNeverRaise ==
    pc = "returned" =>
        /\ ~ret.raised
        /\ LET sn == ret.value[1].val.review_snippets.list
               given == IF "reviews" \in DOMAIN arg[1] /\ DOMAIN arg[1].reviews = {"list"}
                        THEN Len(arg[1].reviews.list) ELSE 0
           IN  /\ Len(sn) <= 3 /\ Len(sn) <= given
               /\ \A j \in 1..Len(sn) :
                     /\ DOMAIN sn[j] = {"str"}
                     /\ sn[j].str = <<>> \/
                           (sn[j].str[1] \notin {" ", "\t", "\n"}
                            /\ sn[j].str[Len(sn[j].str)] \notin {" ", "\t", "\n"})

\* Enriched places: with a name, without one, and named "Unknown"; two
\* ratings; with and without reviews.
BuildPlaces ==
    {Merge(Merge(n, r), v) :
        n \in {EmptyDict, [name |-> Str(<<"A">>)], [name |-> Str(Unknown)]},
        r \in {[rating |-> Num(45)], [rating |-> Num(30), website |-> Str(<<"w">>)]},
        v \in {EmptyDict,
               [reviews |-> List(<<Dict([text |-> Str(<<"o", "k", " ">>)])>>)],
               [reviews |-> List(<<Dict([text |-> Num(5)])>>)]}}

InitBuild == InitBuildWith(SeqsUpTo(BuildPlaces, MaxPlaces))

SpecBuild == InitBuild /\ [][CallBuild]_vars

\* The name a place is shown under.
DisplayName(p) == IF "name" \in DOMAIN p THEN p.name ELSE Str(Unknown)

\* The last place of the argument shown under name n.
LastNamed(n) ==
    CHOOSE i \in 1..Len(arg) :
        /\ DisplayName(arg[i]) = n
        /\ \A m \in (i + 1)..Len(arg) : DisplayName(arg[m]) # n

\* C9: the mapping build_output returns has one entry per distinct display
\* name of the list, a place without a name shown as "Unknown"; the entry of
\* a name carries the fields of the last place of that name; and there are
\* no more entries than places.
C9_LastWriteWins ==
    (pc = "returned" /\ ~ret.raised) =>
        LET out == ret.value
            names == {DisplayName(arg[i]) : i \in 1..Len(arg)}
        IN  /\ {out[j].key : j \in 1..Len(out)} = names
            /\ Len(out) = Cardinality(names)
            /\ Len(out) <= Len(arg)
            /\ \A j \in 1..Len(out) :
                  LET p == arg[LastNamed(out[j].key)]
                  IN  /\ out[j].val.rating = Get(p, "rating")
                      /\ out[j].val.website = Get(p, "website")
                      /\ out[j].val.user_ratings_total = Get(p, "user_ratings_total")
                      /\ out[j].val.address = Get(p, "formatted_address")

\* Two places, the first without a name and the second named "Unknown",
\* of different ratings: one entry, carrying the second's rating.
C9_Witness ==
    /\ pc = "returned" /\ ~ret.raised
    /\ Len(arg) = 2 /\ "name" \notin DOMAIN arg[1] /\ "name" \in DOMAIN arg[2]
    /\ arg[1].rating # arg[2].rating
    /\ Len(ret.value) = 1 /\ ret.value[1].val.rating = arg[2].rating

====
